---- MODULE Spec2Model ----
(***************************************************************************)
(* Model of the two project-file fixer scripts of Whishpermate:            *)
(*   fix_project_python.py  (the first script,  "v1")                      *)
(*   fix_project_v2.py      (the second script, "v2")                      *)
(* Each script reads Whispermate.xcodeproj/project.pbxproj, computes two   *)
(* identifiers with MD5, applies three regular-expression substitutions    *)
(* and writes the file back.  The file is modelled as a sequence of lines; *)
(* every pattern of the scripts is a literal sequence of whole lines, so a *)
(* substitution is a rewrite of adjacent lines.                            *)
(***************************************************************************)
EXTENDS Integers, Sequences, FiniteSets, TLC

(***************************************************************************)
(* hashlib.md5(...).hexdigest()[:24].upper()                               *)
(* A 32-bit word is a pair <<hi, lo>> of 16-bit halves, so that no         *)
(* intermediate value leaves the range of 32-bit signed integers.          *)
(***************************************************************************)
W16 == 65536

RECURSIVE BitAnd(_, _)
BitAnd(a, b) ==
    IF a = 0 \/ b = 0 THEN 0
    ELSE (a % 2) * (b % 2) + 2 * BitAnd(a \div 2, b \div 2)

BitOr(a, b) == a + b - BitAnd(a, b)

BitXor(a, b) == a + b - 2 * BitAnd(a, b)

BitNot(a) == (W16 - 1) - a

WAnd(x, y) == <<BitAnd(x[1], y[1]), BitAnd(x[2], y[2])>>

WOr(x, y) == <<BitOr(x[1], y[1]), BitOr(x[2], y[2])>>

WXor(x, y) == <<BitXor(x[1], y[1]), BitXor(x[2], y[2])>>

WNot(x) == <<BitNot(x[1]), BitNot(x[2])>>

\* addition modulo 2^32
WAdd(x, y) ==
    LET lo == x[2] + y[2]
        hi == x[1] + y[1] + (lo \div W16)
    IN  <<hi % W16, lo % W16>>

\* rotation to the left by s bits, 0 <= s < 32
RotL(x, s) ==
    LET y == IF s >= 16 THEN <<x[2], x[1]>> ELSE x
        r == s % 16
        p == 2 ^ r
        q == 2 ^ (16 - r)
    IN  <<((y[1] * p) % W16) + (y[2] \div q), ((y[2] * p) % W16) + (y[1] \div q)>>

\* K[i] = floor(2^32 * abs(sin(i + 1))), i = 0 .. 63, at index i + 1
Md5K ==
    <<
       <<55146, 42104>>, <<59591, 46934>>, <<9248, 28891>>, <<49597, 52974>>,
       <<62844, 4015>>, <<18311, 50730>>, <<43056, 17939>>, <<64838, 38145>>,
       <<27008, 39128>>, <<35652, 63407>>, <<65535, 23473>>, <<35164, 55230>>,
       <<27536, 4386>>, <<64920, 29075>>, <<42617, 17294>>, <<18868, 2081>>,
       <<63006, 9570>>, <<49216, 45888>>, <<9822, 23121>>, <<59830, 51114>>,
       <<54831, 4189>>, <<580, 5203>>, <<55457, 59009>>, <<59347, 64456>>,
       <<8673, 52710>>, <<49975, 2006>>, <<62677, 3463>>, <<17754, 5357>>,
       <<43491, 59653>>, <<64751, 41976>>, <<26479, 729>>, <<36138, 19594>>,
       <<65530, 14658>>, <<34673, 63105>>, <<28061, 24866>>, <<64997, 14348>>,
       <<42174, 59972>>, <<19422, 53161>>, <<63163, 19296>>, <<48831, 48240>>,
       <<10395, 32454>>, <<60065, 10234>>, <<54511, 12421>>, <<1160, 7429>>,
       <<55764, 53305>>, <<59099, 39397>>, <<8098, 31992>>, <<50348, 22117>>,
       <<62505, 8772>>, <<17194, 65431>>, <<43924, 9127>>, <<64659, 41017>>,
       <<25947, 22979>>, <<36620, 52370>>, <<65519, 62589>>, <<34180, 24017>>,
       <<28584, 32335>>, <<65068, 59104>>, <<41729, 17172>>, <<19976, 4513>>,
       <<63315, 32386>>, <<48442, 62005>>, <<10967, 53947>>, <<60294, 54161>>
    >>

\* the per-round shift amounts, at index i + 1
Md5S ==
    <<7, 12, 17, 22, 7, 12, 17, 22, 7, 12, 17, 22, 7, 12, 17, 22,
      5, 9, 14, 20, 5, 9, 14, 20, 5, 9, 14, 20, 5, 9, 14, 20,
      4, 11, 16, 23, 4, 11, 16, 23, 4, 11, 16, 23, 4, 11, 16, 23,
      6, 10, 15, 21, 6, 10, 15, 21, 6, 10, 15, 21, 6, 10, 15, 21>>

Md5Init == <<<<26437, 8961>>, <<61389, 43913>>, <<39098, 56574>>, <<4146, 21622>>>>

\* the message, a 0x80 byte, zero bytes up to 56 mod 64, and the length in
\* bits as 8 little-endian bytes (messages shorter than 2^21 bytes)
Md5Pad(msg) ==
    LET n == Len(msg)
        k == (119 - (n % 64)) % 64
        bits == 8 * n
    IN  msg \o <<128>> \o [i \in 1..k |-> 0]
            \o <<bits % 256, (bits \div 256) % 256, (bits \div 65536) % 256,
                 0, 0, 0, 0, 0>>

\* the j-th little-endian word (j = 0 .. 15) of the block starting at byte off + 1
Md5Word(bytes, off, j) ==
    <<bytes[off + 4 * j + 3] + 256 * bytes[off + 4 * j + 4],
      bytes[off + 4 * j + 1] + 256 * bytes[off + 4 * j + 2]>>

Md5F(i, b, c, d) ==
    IF i < 16 THEN WOr(WAnd(b, c), WAnd(WNot(b), d))
    ELSE IF i < 32 THEN WOr(WAnd(d, b), WAnd(WNot(d), c))
    ELSE IF i < 48 THEN WXor(b, WXor(c, d))
    ELSE WXor(c, WOr(b, WNot(d)))

Md5G(i) ==
    IF i < 16 THEN i
    ELSE IF i < 32 THEN (5 * i + 1) % 16
    ELSE IF i < 48 THEN (3 * i + 5) % 16
    ELSE (7 * i) % 16

\* one of the 64 steps
Md5Step(st, bytes, off, i) ==
    LET f == WAdd(WAdd(Md5F(i, st[2], st[3], st[4]), st[1]),
                  WAdd(Md5K[i + 1], Md5Word(bytes, off, Md5G(i))))
    IN  <<st[4], WAdd(st[2], RotL(f, Md5S[i + 1])), st[2], st[3]>>

\* steps i .. 63; a state is four 16-bit pairs, and testing that has the
\* state a step produced computed before the next step starts
RECURSIVE Md5Rounds(_, _, _, _)
Md5Rounds(st, bytes, off, i) ==
    IF i = 64 \/ st[1][1] >= W16 THEN st
    ELSE Md5Rounds(Md5Step(st, bytes, off, i), bytes, off, i + 1)

RECURSIVE Md5Blocks(_, _, _)
Md5Blocks(st, bytes, off) ==
    IF off >= Len(bytes) THEN st
    ELSE LET r == Md5Rounds(st, bytes, off, 0)
         IN  Md5Blocks(<<WAdd(st[1], r[1]), WAdd(st[2], r[2]),
                         WAdd(st[3], r[3]), WAdd(st[4], r[4])>>, bytes, off + 64)

HexDigits == <<"0", "1", "2", "3", "4", "5", "6", "7",
               "8", "9", "a", "b", "c", "d", "e", "f">>

HexByte(b) == <<HexDigits[(b \div 16) + 1], HexDigits[(b % 16) + 1]>>

WordHex(x) ==
    HexByte(x[2] % 256) \o HexByte(x[2] \div 256)
        \o HexByte(x[1] % 256) \o HexByte(x[1] \div 256)

\* hashlib.md5(msg).hexdigest(): 32 lower-case hexadecimal characters
Md5HexDigest(msg) ==
    LET st == Md5Blocks(Md5Init, Md5Pad(msg), 0)
    IN  WordHex(st[1]) \o WordHex(st[2]) \o WordHex(st[3]) \o WordHex(st[4])

\* str.upper() on one character
UpperChar(c) ==
    CASE c = "a" -> "A" [] c = "b" -> "B" [] c = "c" -> "C"
      [] c = "d" -> "D" [] c = "e" -> "E" [] c = "f" -> "F"
      [] OTHER -> c

\* str.upper()
RECURSIVE Upper(_)
Upper(s) == IF s = <<>> THEN <<>> ELSE <<UpperChar(Head(s))>> \o Upper(Tail(s))

\* s[:n]
Prefix(s, n) == SubSeq(s, 1, IF n < Len(s) THEN n ELSE Len(s))

\* b'WhisperMateIOSInfoPlistException'
IosSeed ==
    <<
       87, 104, 105, 115, 112, 101, 114, 77, 97, 116, 101, 73,
       79, 83, 73, 110, 102, 111, 80, 108, 105, 115, 116, 69,
       120, 99, 101, 112, 116, 105, 111, 110
    >>

\* b'WhisperMateKeyboardInfoPlistException'
KeyboardSeed ==
    <<
       87, 104, 105, 115, 112, 101, 114, 77, 97, 116, 101, 75,
       101, 121, 98, 111, 97, 114, 100, 73, 110, 102, 111, 80,
       108, 105, 115, 116, 69, 120, 99, 101, 112, 116, 105, 111,
       110
    >>

UuidLen == 24

\* fix_project_python.py, lines 10-11
v1_ios_uuid == Upper(Prefix(Md5HexDigest(IosSeed), UuidLen))

v1_keyboard_uuid == Upper(Prefix(Md5HexDigest(KeyboardSeed), UuidLen))

\* fix_project_v2.py, lines 10-11
\* the identifier without the conversion to upper case
v2_ios_uuid_lower == Prefix(Md5HexDigest(IosSeed), UuidLen)

v2_ios_uuid == Upper(Prefix(Md5HexDigest(IosSeed), UuidLen))

\* the keyboard identifier computed from the seed of the iOS one
v2_keyboard_uuid_ios_seed == Upper(Prefix(Md5HexDigest(IosSeed), UuidLen))

v2_keyboard_uuid == Upper(Prefix(Md5HexDigest(KeyboardSeed), UuidLen))

(***************************************************************************)
(* The text of the project file.  A line is a record: its kind, the        *)
(* 24-character identifier it carries (<<>> when it carries none) and the  *)
(* folder name it mentions ("" when none).  An identifier occurs in the    *)
(* content exactly when some line carries it.                              *)
(***************************************************************************)
Line(kind, id, name) == [kind |-> kind, id |-> id, name |-> name]

\* any line no pattern mentions
Other == Line("other", <<>>, "")

\* "/* Begin PBXFileSystemSynchronizedBuildFileExceptionSet section */\n"
Marker == Line("Begin PBXFileSystemSynchronizedBuildFileExceptionSet section", <<>>, "")

\* the seven-line text block
\*   <uuid> /* Exceptions for "<name>" folder in "<name>" target */ = { ... };
ExceptionEntry(uuid, name) == Line("exception", uuid, name)

IosGroupId ==
    <<"C", "1", "E", "7", "D", "2", "E", "F", "2", "E", "B", "A",
      "9", "2", "A", "5", "0", "0", "A", "0", "7", "3", "3", "8">>

KeyboardGroupId ==
    <<"C", "1", "E", "7", "D", "3", "0", "6", "2", "E", "B", "A",
      "9", "2", "C", "9", "0", "0", "A", "0", "7", "3", "3", "8">>

\* "<id> /* <name> */ = {\n\t\t\tisa = PBXFileSystemSynchronizedRootGroup;\n"
GroupHead(id, name) == Line("group", id, name)

IosGroupHead == GroupHead(IosGroupId, "WhisperMateIOS")

KeyboardGroupHead == GroupHead(KeyboardGroupId, "WhisperMateKeyboard")

\* "\t\t\texceptions = (\n"
ExceptionsOpen == Line("exceptions = (", <<>>, "")

\* "\t\t\t);"
ListClose == Line(");", <<>>, "")

\* "\t\t\t\t<uuid> /* Exceptions for "<name>" folder in "<name>" target */,\n"
ExceptionRef(uuid, name) == Line("ref", uuid, name)

\* "\t\t\tpath = <name>;"
PathLine(name) == Line("path", <<>>, name)

\* uuid in content
Contains(content, uuid) == \E i \in DOMAIN content : content[i].id = uuid

\* the pattern occurs in the content at line i
MatchAt(content, pattern, i) ==
    /\ i + Len(pattern) - 1 <= Len(content)
    /\ SubSeq(content, i, i + Len(pattern) - 1) = pattern

\* re.sub(pattern, repl, content) for a pattern that is a literal sequence of
\* lines: every non-overlapping occurrence, leftmost first, is replaced
RECURSIVE Sub(_, _, _)
Sub(pattern, repl, content) ==
    IF content = <<>> THEN <<>>
    ELSE IF MatchAt(content, pattern, 1)
         THEN repl \o Sub(pattern, repl, SubSeq(content, Len(pattern) + 1, Len(content)))
         ELSE <<Head(content)>> \o Sub(pattern, repl, Tail(content))

\* the number of replacements re.subn makes
RECURSIVE NumSubs(_, _)
NumSubs(pattern, content) ==
    IF content = <<>> THEN 0
    ELSE IF MatchAt(content, pattern, 1)
         THEN 1 + NumSubs(pattern, SubSeq(content, Len(pattern) + 1, Len(content)))
         ELSE NumSubs(pattern, Tail(content))

\* re.subn(pattern, repl, content): the new content and the number of replacements
Subn(pattern, repl, content) ==
    <<Sub(pattern, repl, content), NumSubs(pattern, content)>>

(***************************************************************************)
(* fix_project_python.py                                                   *)
(***************************************************************************)
v1_ios_exception == ExceptionEntry(v1_ios_uuid, "WhisperMateIOS")

v1_keyboard_exception == ExceptionEntry(v1_keyboard_uuid, "WhisperMateKeyboard")

v1_exception_section_pattern == <<Marker>>

v1_exception_section_replacement ==
    <<Marker, v1_ios_exception, v1_keyboard_exception>>

\* the pattern of the second script, which asks for no exceptions list
v1_ios_group_pattern_no_list == <<IosGroupHead, PathLine("WhisperMateIOS")>>

v1_ios_group_pattern == <<IosGroupHead, ExceptionsOpen, ListClose>>

\* the reference put after the closing line of the list
v1_ios_group_replacement_after_close ==
    <<IosGroupHead, ExceptionsOpen, ListClose,
      ExceptionRef(v1_ios_uuid, "WhisperMateIOS")>>

v1_ios_group_replacement ==
    <<IosGroupHead, ExceptionsOpen,
      ExceptionRef(v1_ios_uuid, "WhisperMateIOS"), ListClose>>

v1_keyboard_group_pattern == <<KeyboardGroupHead, ExceptionsOpen, ListClose>>

v1_keyboard_group_replacement ==
    <<KeyboardGroupHead, ExceptionsOpen,
      ExceptionRef(v1_keyboard_uuid, "WhisperMateKeyboard"), ListClose>>

\* the insertion with the guard of the second script
v1_add_exceptions_guarded(content) ==
    IF Contains(content, v1_ios_uuid) THEN content
    ELSE Sub(v1_exception_section_pattern, v1_exception_section_replacement, content)

\* line 37
v1_add_exceptions(content) ==
    Sub(v1_exception_section_pattern, v1_exception_section_replacement, content)

\* line 42
v1_update_ios_group(content) ==
    Sub(v1_ios_group_pattern, v1_ios_group_replacement, content)

\* line 47
v1_update_keyboard_group(content) ==
    Sub(v1_keyboard_group_pattern, v1_keyboard_group_replacement, content)

\* lines 13, 14 and 53
v1_output ==
    <<"iOS Exception UUID", "Keyboard Exception UUID",
      "Project file updated successfully">>

(***************************************************************************)
(* fix_project_v2.py                                                       *)
(***************************************************************************)
v2_ios_exception == ExceptionEntry(v2_ios_uuid, "WhisperMateIOS")

v2_keyboard_exception == ExceptionEntry(v2_keyboard_uuid, "WhisperMateKeyboard")

\* no guard: the exceptions are never taken to exist
v2_exceptions_exist_never(content) == FALSE

\* the guard looking for the keyboard identifier
v2_exceptions_exist_keyboard(content) == Contains(content, v2_keyboard_uuid)

\* line 36: the negation of "ios_uuid not in content"
v2_exceptions_exist(content) == Contains(content, v2_ios_uuid)

v2_exception_section_pattern == <<Marker>>

\* the two entries in the other order
v2_exception_section_replacement_swapped ==
    <<Marker, v2_keyboard_exception, v2_ios_exception>>

v2_exception_section_replacement ==
    <<Marker, v2_ios_exception, v2_keyboard_exception>>

\* lines 36-42: the content after the guarded insertion
v2_add_exceptions(content) ==
    IF ~v2_exceptions_exist(content)
    THEN Sub(v2_exception_section_pattern, v2_exception_section_replacement, content)
    ELSE content

\* lines 40 and 42: the message the guard prints
v2_exceptions_message(content) ==
    IF ~v2_exceptions_exist(content)
    THEN "Added exception entries"
    ELSE "Exceptions already exist"

v2_ios_group_pattern == <<IosGroupHead, PathLine("WhisperMateIOS")>>

v2_ios_group_replacement ==
    <<IosGroupHead, ExceptionsOpen,
      ExceptionRef(v2_ios_uuid, "WhisperMateIOS"), ListClose,
      PathLine("WhisperMateIOS")>>

v2_keyboard_group_pattern == <<KeyboardGroupHead, PathLine("WhisperMateKeyboard")>>

v2_keyboard_group_replacement ==
    <<KeyboardGroupHead, ExceptionsOpen,
      ExceptionRef(v2_keyboard_uuid, "WhisperMateKeyboard"), ListClose,
      PathLine("WhisperMateKeyboard")>>

\* line 47: <<content, ios_subs>>
v2_update_ios_group(content) ==
    Subn(v2_ios_group_pattern, v2_ios_group_replacement, content)

\* lines 49-52
v2_ios_message(ios_subs) ==
    IF ios_subs > 0 THEN "Updated iOS group" ELSE "iOS group pattern not matched"

\* line 57: <<content, keyboard_subs>>
v2_update_keyboard_group(content) ==
    Subn(v2_keyboard_group_pattern, v2_keyboard_group_replacement, content)

\* lines 59-62
v2_keyboard_message(keyboard_subs) ==
    IF keyboard_subs > 0 THEN "Updated Keyboard group"
    ELSE "Keyboard group pattern not matched"

(***************************************************************************)
(* The state: the project file on disk, the content it had before the      *)
(* first run, and the record of every run made so far (what it read, the   *)
(* content after each of its three substitutions, what it wrote, what it   *)
(* printed and the identifiers it computed).                               *)
(***************************************************************************)
VARIABLES file, orig, runs

vars == <<file, orig, runs>>

MaxLines == 3

MaxChunks == 4

MaxRuns == 2

\* the lines a project file is made of
Lines ==
    {Other, Marker,
     ExceptionEntry(v1_ios_uuid, "WhisperMateIOS"),
     ExceptionEntry(v1_keyboard_uuid, "WhisperMateKeyboard"),
     IosGroupHead, KeyboardGroupHead, ExceptionsOpen, ListClose,
     ExceptionRef(v1_ios_uuid, "WhisperMateIOS"),
     ExceptionRef(v1_keyboard_uuid, "WhisperMateKeyboard"),
     PathLine("WhisperMateIOS"), PathLine("WhisperMateKeyboard")}

\* the parts of a project file neither script has touched yet: the section
\* marker, a root group without an exceptions list, a root group with an
\* empty one, and other text
Chunks ==
    {<<Other>>, <<Marker>>,
     <<IosGroupHead, PathLine("WhisperMateIOS")>>,
     <<IosGroupHead, ExceptionsOpen, ListClose, PathLine("WhisperMateIOS")>>,
     <<KeyboardGroupHead, PathLine("WhisperMateKeyboard")>>,
     <<KeyboardGroupHead, ExceptionsOpen, ListClose, PathLine("WhisperMateKeyboard")>>}

RECURSIVE Flatten(_)
Flatten(chunks) ==
    IF chunks = <<>> THEN <<>> ELSE Head(chunks) \o Flatten(Tail(chunks))

\* the contents the file may have before the first run: every sequence of at
\* most MaxLines lines, and every sequence of at most MaxChunks chunks
InputFiles ==
    (UNION {[1..n -> Lines] : n \in 0..MaxLines})
        \cup {Flatten(s) : s \in UNION {[1..n -> Chunks] : n \in 0..MaxChunks}}

Init ==
    /\ file \in InputFiles
    /\ orig = file
    /\ runs = <<>>

\* one run of fix_project_python.py on an existing project file; each bound
\* variable is the value the script assigns at that line
RunV1 ==
    /\ Len(runs) < MaxRuns
    /\ \E content \in {file} :
       \E sub1 \in {v1_add_exceptions(content)} :
       \E sub2 \in {v1_update_ios_group(sub1)} :
       \E sub3 \in {v1_update_keyboard_group(sub2)} :
           /\ file' = sub3
           /\ runs' = Append(runs,
                  [script |-> "v1", read |-> content, sub1 |-> sub1, sub2 |-> sub2,
                   written |-> sub3, out |-> v1_output,
                   ios_uuid |-> v1_ios_uuid, keyboard_uuid |-> v1_keyboard_uuid])
    /\ UNCHANGED orig

\* one run of fix_project_v2.py on an existing project file
RunV2 ==
    /\ Len(runs) < MaxRuns
    /\ \E content \in {file} :
       \E sub1 \in {v2_add_exceptions(content)} :
       \E ios \in {v2_update_ios_group(sub1)} :
       \E keyboard \in {v2_update_keyboard_group(ios[1])} :
           /\ file' = keyboard[1]
           /\ runs' = Append(runs,
                  [script |-> "v2", read |-> content, sub1 |-> sub1, sub2 |-> ios[1],
                   written |-> keyboard[1],
                   out |-> <<"iOS Exception UUID", "Keyboard Exception UUID",
                             v2_exceptions_message(content),
                             v2_ios_message(ios[2]),
                             v2_keyboard_message(keyboard[2]),
                             "Project file update complete">>,
                   ios_uuid |-> v2_ios_uuid, keyboard_uuid |-> v2_keyboard_uuid])
    /\ UNCHANGED orig

Next == RunV1 \/ RunV2

Spec == Init /\ [][Next]_vars

(***************************************************************************)
(* Vocabulary of the properties                                            *)
(***************************************************************************)
Ios == "WhisperMateIOS"

Keyboard == "WhisperMateKeyboard"

Folders == {Ios, Keyboard}

RootGroupHead(name) == IF name = Ios THEN IosGroupHead ELSE KeyboardGroupHead

\* the number of section markers in the content
NumMarkers(c) == Cardinality({i \in DOMAIN c : c[i] = Marker})

\* the number of exception definitions for the folder in the content
NumDefs(c, name) ==
    Cardinality({i \in DOMAIN c : c[i].kind = "exception" /\ c[i].name = name})

\* the root group of the folder occurs with an empty exceptions list
HasEmptyList(c, name) ==
    \E i \in DOMAIN c :
        /\ i + 2 <= Len(c)
        /\ c[i] = RootGroupHead(name)
        /\ c[i + 1] = ExceptionsOpen
        /\ c[i + 2] = ListClose

\* the root group of the folder occurs with its path directly after the isa line
HasGroupWithPath(c, name) ==
    \E i \in DOMAIN c :
        /\ i + 1 <= Len(c)
        /\ c[i] = RootGroupHead(name)
        /\ c[i + 1] = PathLine(name)

\* the group pattern of the script matches the content
GroupMatches(script, c, name) ==
    IF script = "v1" THEN HasEmptyList(c, name) ELSE HasGroupWithPath(c, name)

\* the identifier a run computed for the folder
RunId(r, name) == IF name = Ios THEN r.ios_uuid ELSE r.keyboard_uuid

\* the content holds a definition of the identifier
Defines(c, id) == \E j \in DOMAIN c : c[j].kind = "exception" /\ c[j].id = id

\* the root group of the folder holds a reference to an identifier the
\* content does not define
DanglingRef(c, name) ==
    \E i \in DOMAIN c :
        /\ i + 2 <= Len(c)
        /\ c[i] = RootGroupHead(name)
        /\ c[i + 1] = ExceptionsOpen
        /\ c[i + 2].kind = "ref"
        /\ ~Defines(c, c[i + 2].id)

\* the lines that make up the body of a root group
GroupBodyKinds == {"exceptions = (", ");", "ref", "path"}

\* the number of references to the folder's exception among the lines of a
\* group body that start at line j: the block ends at the first other line
RECURSIVE RefsFrom(_, _, _)
RefsFrom(c, name, j) ==
    IF j > Len(c) \/ c[j].kind \notin GroupBodyKinds THEN 0
    ELSE (IF c[j].kind = "ref" /\ c[j].name = name THEN 1 ELSE 0)
             + RefsFrom(c, name, j + 1)

\* the number of references to the folder's exception in the block of the
\* group whose head is line i
RefsInBlock(c, i) == RefsFrom(c, c[i].name, i + 1)

\* the content with the lines at the positions in S left out
RECURSIVE Without(_, _, _)
Without(c, S, i) ==
    IF i > Len(c) THEN <<>>
    ELSE (IF i \in S THEN <<>> ELSE <<c[i]>>) \o Without(c, S, i + 1)

Printed(r, msg) == \E i \in DOMAIN r.out : r.out[i] = msg

(***************************************************************************)
(* C1: the second script is idempotent: a run of it that directly follows  *)
(* another run of it writes back exactly the content the first run wrote.  *)
(***************************************************************************)
C1_V2Idempotent ==
    \A k \in DOMAIN runs :
        (k > 1 /\ runs[k - 1].script = "v2" /\ runs[k].script = "v2")
            => /\ runs[k].read = runs[k - 1].written
               /\ runs[k].written = runs[k - 1].written

\* two runs of the second script, the first of which inserted the
\* definitions and a group reference
C1_Witness ==
    \E k \in DOMAIN runs :
        /\ k > 1
        /\ runs[k - 1].script = "v2" /\ runs[k].script = "v2"
        /\ runs[k - 1].sub1 # runs[k - 1].read
        /\ runs[k - 1].sub2 # runs[k - 1].sub1

(***************************************************************************)
(* C2: the first script is not idempotent: on a file that contains the     *)
(* section marker every run inserts another copy of the iOS and of the     *)
(* keyboard definition directly after each marker, so the content changes  *)
(* and after two runs each definition is present twice (exactly twice when *)
(* the file had one marker and no definition).                             *)
(***************************************************************************)
C2_V1NotIdempotent ==
    \A k \in DOMAIN runs :
        LET r == runs[k]
        IN  (r.script = "v1" /\ NumMarkers(r.read) > 0)
            => /\ r.written # r.read
               /\ \A name \in Folders :
                      NumDefs(r.written, name)
                          = NumDefs(r.read, name) + NumMarkers(r.read)
               /\ \A i \in DOMAIN r.written :
                      r.written[i] = Marker
                          => /\ i + 2 <= Len(r.written)
                             /\ r.written[i + 1] = ExceptionEntry(r.ios_uuid, Ios)
                             /\ r.written[i + 2] = ExceptionEntry(r.keyboard_uuid, Keyboard)
               /\ (k > 1 /\ runs[k - 1].script = "v1")
                      => \A name \in Folders :
                             /\ NumDefs(r.written, name) >= 2
                             /\ (/\ NumMarkers(runs[k - 1].read) = 1
                                 /\ NumDefs(runs[k - 1].read, name) = 0)
                                    => NumDefs(r.written, name) = 2

\* two runs of the first script on a file with one marker and no definition
C2_Witness ==
    /\ Len(runs) = 2
    /\ runs[1].script = "v1" /\ runs[2].script = "v1"
    /\ NumMarkers(orig) = 1
    /\ \A name \in Folders : NumDefs(orig, name) = 0 /\ NumDefs(file, name) = 2

(***************************************************************************)
(* C3: the second script never inserts a duplicate exception entry: a run  *)
(* on a file with one section marker inserts no definition for an          *)
(* identifier the file already contains, and a file that starts with at    *)
(* most one definition of each identifier has at most one of each after    *)
(* any number of runs of the second script.                                *)
(***************************************************************************)
C3_NoDuplicateEntry ==
    /\ \A k \in DOMAIN runs :
           LET r == runs[k]
           IN  (r.script = "v2" /\ NumMarkers(r.read) = 1)
               => \A name \in Folders :
                      Contains(r.read, RunId(r, name))
                          => NumDefs(r.written, name) = NumDefs(r.read, name)
    /\ (/\ \A k \in DOMAIN runs : runs[k].script = "v2"
        /\ NumMarkers(orig) = 1
        /\ \A name \in Folders : NumDefs(orig, name) <= 1)
           => \A name \in Folders : NumDefs(file, name) <= 1

(***************************************************************************)
(* C4: the second script reports whether each of its three substitutions   *)
(* succeeded: it prints the success message of a substitution only when    *)
(* that substitution changed the content, and prints a warning when the    *)
(* pattern of the substitution did not match.                              *)
(***************************************************************************)
C4_ReportsEachSubstitution ==
    \A k \in DOMAIN runs :
        LET r == runs[k]
        IN  r.script = "v2"
            => /\ Printed(r, "Added exception entries") => r.sub1 # r.read
               /\ NumMarkers(r.read) = 0 => Printed(r, "Exceptions already exist")
               /\ Printed(r, "Updated iOS group") => r.sub2 # r.sub1
               /\ ~HasGroupWithPath(r.sub1, Ios)
                      => Printed(r, "iOS group pattern not matched")
               /\ Printed(r, "Updated Keyboard group") => r.written # r.sub2
               /\ ~HasGroupWithPath(r.sub2, Keyboard)
                      => Printed(r, "Keyboard group pattern not matched")

(***************************************************************************)
(* C5: in the first script a substitution whose pattern does not match     *)
(* leaves the content unchanged, and when none of the three patterns       *)
(* (section marker, iOS group with an empty exceptions list, keyboard      *)
(* group with an empty exceptions list) matches, the content written back  *)
(* is the content read.                                                    *)
(***************************************************************************)
C5_V1NoMatchNoChange ==
    \A k \in DOMAIN runs :
        LET r == runs[k]
        IN  r.script = "v1"
            => /\ NumMarkers(r.read) = 0 => r.sub1 = r.read
               /\ ~HasEmptyList(r.read, Ios) => r.sub2 = r.sub1
               /\ ~HasEmptyList(r.read, Keyboard) => r.written = r.sub2
               /\ (/\ NumMarkers(r.read) = 0
                   /\ ~HasEmptyList(r.read, Ios)
                   /\ ~HasEmptyList(r.read, Keyboard))
                      => r.written = r.read /\ (k = Len(runs) => file = r.read)

\* a run of the first script on a file that holds both root groups, neither
\* with an empty exceptions list, and no marker
C5_Witness ==
    /\ Len(runs) = 1
    /\ runs[1].script = "v1"
    /\ NumMarkers(orig) = 0
    /\ \A name \in Folders : HasGroupWithPath(orig, name) /\ ~HasEmptyList(orig, name)
    /\ file = orig

(***************************************************************************)
(* C6: the identifiers are deterministic: any two runs, of either script   *)
(* and on whatever content, compute the same iOS identifier and the same   *)
(* keyboard identifier.                                                    *)
(***************************************************************************)
C6_IdentifiersDeterministic ==
    \A j, k \in DOMAIN runs :
        /\ runs[j].ios_uuid = runs[k].ios_uuid
        /\ runs[j].keyboard_uuid = runs[k].keyboard_uuid

\* a run of each script, on different contents
C6_Witness ==
    \E j, k \in DOMAIN runs :
        /\ runs[j].script = "v1" /\ runs[k].script = "v2"
        /\ runs[j].read # runs[k].read
        /\ Len(runs[j].ios_uuid) = UuidLen

(***************************************************************************)
(* C7 as stated: in both scripts each of the three substitutions is        *)
(* applied exactly when its own pattern matches, independently of the      *)
(* other two, and the file is always written back; a run of the second     *)
(* script on a file without the section marker but with a matching group   *)
(* leaves the group referring to an identifier that has no definition.     *)
(***************************************************************************)
C7_AppliedIffPatternMatches ==
    \A k \in DOMAIN runs :
        LET r == runs[k]
        IN  /\ r.sub1 # r.read <=> NumMarkers(r.read) > 0
            /\ r.sub2 # r.sub1 <=> GroupMatches(r.script, r.read, Ios)
            /\ r.written # r.sub2 <=> GroupMatches(r.script, r.read, Keyboard)
            /\ k = Len(runs) => file = r.written
            /\ (r.script = "v2" /\ NumMarkers(r.read) = 0)
                   => \A name \in Folders :
                          HasGroupWithPath(r.read, name) => DanglingRef(r.written, name)

(***************************************************************************)
(* C7 as amended: the two group substitutions are applied exactly when     *)
(* their own pattern matches; the section insertion is applied exactly     *)
(* when the marker matches and, in the second script, the iOS identifier   *)
(* does not occur in the content yet; the file is always written back; a   *)
(* run of the second script on a file without the section marker and       *)
(* without a definition of the identifier, but with a matching group,      *)
(* leaves the group referring to an identifier that has no definition.     *)
(***************************************************************************)
C7_NoRollback ==
    \A k \in DOMAIN runs :
        LET r == runs[k]
        IN  /\ r.sub1 # r.read
                <=> /\ NumMarkers(r.read) > 0
                    /\ r.script = "v2" => ~Contains(r.read, r.ios_uuid)
            /\ r.sub2 # r.sub1 <=> GroupMatches(r.script, r.read, Ios)
            /\ r.written # r.sub2 <=> GroupMatches(r.script, r.read, Keyboard)
            /\ k = Len(runs) => file = r.written
            /\ (r.script = "v2" /\ NumMarkers(r.read) = 0)
                   => \A name \in Folders :
                          (/\ HasGroupWithPath(r.read, name)
                           /\ ~Defines(r.read, RunId(r, name)))
                              => DanglingRef(r.written, name)

\* a run of the second script that updated a group and inserted no definition
C7_Witness ==
    \E k \in DOMAIN runs :
        LET r == runs[k]
        IN  /\ r.script = "v2"
            /\ NumMarkers(r.read) = 0
            /\ r.sub1 = r.read
            /\ r.sub2 # r.sub1
            /\ DanglingRef(r.written, Ios)
            /\ file = r.written

(***************************************************************************)
(* C8: on a clean file (one section marker, each root group once and with  *)
(* its path directly after the isa line, neither identifier present) a run *)
(* of the second script puts one iOS definition and then one keyboard      *)
(* definition directly after the marker, gives each group an exceptions    *)
(* list holding exactly its identifier, and leaves the rest unchanged.     *)
(***************************************************************************)
Clean(c, r) ==
    /\ NumMarkers(c) = 1
    /\ \A name \in Folders :
           /\ Cardinality({i \in DOMAIN c : c[i] = RootGroupHead(name)}) = 1
           /\ HasGroupWithPath(c, name)
           /\ ~Contains(c, RunId(r, name))

C8_CleanFileFullyPatched ==
    \A k \in DOMAIN runs :
        LET r == runs[k]
            w == r.written
        IN  (r.script = "v2" /\ Clean(r.read, r))
            => /\ NumMarkers(w) = 1
               /\ \A name \in Folders :
                      /\ NumDefs(w, name) = 1
                      /\ Cardinality({i \in DOMAIN w : w[i] = RootGroupHead(name)}) = 1
               /\ LET m == CHOOSE i \in DOMAIN w : w[i] = Marker
                      gi == CHOOSE i \in DOMAIN w : w[i] = IosGroupHead
                      gk == CHOOSE i \in DOMAIN w : w[i] = KeyboardGroupHead
                  IN  /\ Len(w) = Len(r.read) + 8
                      /\ m + 2 <= Len(w) /\ gi + 4 <= Len(w) /\ gk + 4 <= Len(w)
                      /\ w[m + 1] = ExceptionEntry(r.ios_uuid, Ios)
                      /\ w[m + 2] = ExceptionEntry(r.keyboard_uuid, Keyboard)
                      /\ w[gi + 1] = ExceptionsOpen
                      /\ w[gi + 2] = ExceptionRef(r.ios_uuid, Ios)
                      /\ w[gi + 3] = ListClose
                      /\ w[gi + 4] = PathLine(Ios)
                      /\ w[gk + 1] = ExceptionsOpen
                      /\ w[gk + 2] = ExceptionRef(r.keyboard_uuid, Keyboard)
                      /\ w[gk + 3] = ListClose
                      /\ w[gk + 4] = PathLine(Keyboard)
                      /\ Without(w, {m + 1, m + 2, gi + 1, gi + 2, gi + 3,
                                     gk + 1, gk + 2, gk + 3}, 1) = r.read

\* a run of the second script on a clean file that holds other text too
C8_Witness ==
    /\ Len(runs) = 1
    /\ runs[1].script = "v2"
    /\ Clean(orig, runs[1])
    /\ \E i \in DOMAIN orig : orig[i] = Other
    /\ Len(file) = Len(orig) + 8

(***************************************************************************)
(* C9: when the root groups of the initial file hold no reference to their *)
(* exception, then after any sequence of runs of the two scripts every     *)
(* root group block holds at most one such reference, and neither script's *)
(* group pattern matches a block that holds one.                           *)
(***************************************************************************)
IsRootGroupHead(l) == l = IosGroupHead \/ l = KeyboardGroupHead

C9_AtMostOneReference ==
    (\A i \in DOMAIN orig : IsRootGroupHead(orig[i]) => RefsInBlock(orig, i) = 0)
        => \A i \in DOMAIN file :
               IsRootGroupHead(file[i])
                   => /\ RefsInBlock(file, i) <= 1
                      /\ RefsInBlock(file, i) = 1
                             => /\ ~MatchAt(file, <<file[i], ExceptionsOpen, ListClose>>, i)
                                /\ ~MatchAt(file, <<file[i], PathLine(file[i].name)>>, i)

\* both scripts have run, in either order, and a group holds a reference
C9_Witness ==
    /\ Len(runs) = 2
    /\ runs[1].script # runs[2].script
    /\ \A i \in DOMAIN orig : IsRootGroupHead(orig[i]) => RefsInBlock(orig, i) = 0
    /\ HasEmptyList(orig, Ios) /\ HasGroupWithPath(orig, Keyboard)
    /\ \A i \in DOMAIN file : IsRootGroupHead(file[i]) => RefsInBlock(file, i) = 1

(***************************************************************************)
(* C10: a run of the second script that directly follows a run of the      *)
(* first script inserts no exception definition: the file holds as many    *)
(* iOS and keyboard definitions after it as before it.                     *)
(***************************************************************************)
C10_V2AfterV1InsertsNothing ==
    \A k \in DOMAIN runs :
        (k > 1 /\ runs[k - 1].script = "v1" /\ runs[k].script = "v2")
            => \A name \in Folders :
                   NumDefs(runs[k].written, name) = NumDefs(runs[k - 1].written, name)

\* the first script inserted the definitions and the second script ran next,
\* on a file that holds the marker
C10_Witness ==
    \E k \in DOMAIN runs :
        /\ k > 1
        /\ runs[k - 1].script = "v1" /\ runs[k].script = "v2"
        /\ runs[k - 1].sub1 # runs[k - 1].read
        /\ NumMarkers(runs[k].read) > 0
        /\ Printed(runs[k], "Exceptions already exist")
====
